---- MODULE Spec2Model ----
(***************************************************************************)
(* Model of pylm's internal broker (Broker, as copied into                 *)
(* tests/test_feedback.py), of the producers and the echoing worker of     *)
(* that test, and of the scatter service (PushPullService,                 *)
(* pylm_ng/components/services.py).                                        *)
(*                                                                         *)
(* The broker is a single-threaded loop over two ROUTER sockets.  Every    *)
(* producer and worker owns a REQ socket, so each has at most one request  *)
(* outstanding; a ROUTER socket fair-queues its peers, so the loop may     *)
(* receive the pending message of any peer.                                *)
(***************************************************************************)
EXTENDS Integers, Sequences, FiniteSets, TLC

\* ------------------------------------------------------------------ bounds

\* Requests each producer of the general configuration sends.
NumReq == 2
\* Iterations of the broker loop in the general configuration.
MaxMessages == 9
\* Requests each worker of the general configuration answers.
WorkerLoops == 3

\* Messages the scatter service handles (its max_messages).
ServiceMessages == 2
\* Largest number of messages a scatter override yields for one message.
MaxScatter == 3

\* Messages translated to the broker's format in one run.
MaxTranslations == 3

\* ------------------------------------------------------- program constants

\* test_feedback: Broker(messages=20), range(0, 10, 2), range(10).
TestMessages == 20
TestStop == 10
TestWorkerLoops == 10

\* The acknowledgement the broker sends to a producer that is not blocked.
Ack == "1"
\* The payload of the test worker's first message.
Ready == "READY"
\* The key of a worker's first message.
ReadyKey == <<"0", 0>>

\* ------------------------------------------------------------ identities

Producers == {"inbound1", "inbound2", "inbound3", "inbound4", "stranger"}
Workers == {"outbound", "outbound2"}
\* The workers connected to the scatter service's push and pull sockets.
PoolWorkers == {"worker1", "worker2"}
\* The payloads the broker hands to the scatter service.
ServicePayloads == {"m", "n"}

\* ------------------------------------------------- dictionaries and lists

EmptyDict == << >>

DictSet(d, k, v) == [x \in (DOMAIN d) \cup {k} |-> IF x = k THEN v ELSE d[x]]

DictPop(d, k) == [x \in (DOMAIN d) \ {k} |-> d[x]]

\* x in list
ListIn(x, s) == \E i \in 1..Len(s) : s[i] = x

\* list.remove(x): removes the first occurrence of x.
ListRemove(s, x) ==
  LET first == CHOOSE i \in 1..Len(s) : s[i] = x /\ \A j \in 1..(i - 1) : s[j] # x
  IN  [i \in 1..(Len(s) - 1) |-> IF i < first THEN s[i] ELSE s[i + 1]]

\* len(range(start, stop, step)) for step > 0.
RangeLen(r) ==
  IF r.stop <= r.start THEN 0 ELSE ((r.stop - r.start - 1) \div r.step) + 1

\* ---------------------------------------------------------------- codec

\* BrokerMessage.SerializeToString: the record's two tagged fields, in order.
Serialize(m) == <<"BrokerMessage", m.key, m.payload>>

\* BrokerMessage.ParseFromString of bytes produced by SerializeToString.
Parse(bytes) == [key |-> bytes[2], payload |-> bytes[3]]

\* PalmMessage.SerializeToString: the record's tagged fields, in order.
SerializePalm(m) ==
  <<"PalmMessage", m.client, m.pipeline, m.function, m.stage, m.payload>>

\* PalmMessage.ParseFromString of bytes produced by SerializeToString.
ParsePalm(bytes) ==
  [client |-> bytes[2], pipeline |-> bytes[3], function |-> bytes[4],
   stage |-> bytes[5], payload |-> bytes[6]]

\* Bytes sent as a whole message, not the serialization of a BrokerMessage.
Raw(b) == <<"bytes", b>>

\* Whether bytes are the serialization of a BrokerMessage, which
\* ParseFromString reads back with the key and the payload it was given.
Decodable(bytes) == bytes[1] = "BrokerMessage"

\* str(uuid4()): a key no other request carries.
FreshKey(p, n) == <<p, n>>

\* ----------------------------------------------------------------- state

VARIABLES
  \* Broker
  inbound_components,  \* name -> [route, block], filled by register_inbound
  messages,            \* self.messages
  ledger,              \* key -> producer waiting for the feedback with that key
  buffer,              \* worker name -> serialized message
  poller,              \* the sockets registered with the poller
  available_outbound,  \* list of the workers that wait for a message
  iter,                \* iterations of the loop completed
  brokerPc,            \* "running", "done" (start returned) or "crashed"
  \* Sockets
  inboundQ,            \* producer -> request the inbound socket has not read yet
  outboundQ,           \* worker -> message the outbound socket has not read yet
  toProducer,          \* producer -> replies its REQ socket has not read yet
  toWorker,            \* worker -> messages its REQ socket has not read yet
  open,                \* the sockets that have not been closed
  \* Producers (inbound1, inbound2 of the test)
  prange,              \* producer -> [start, stop, step, echo]
  ppc,                 \* producer -> "send", "recv", "done" or "failed"
  pn,                  \* producer -> requests completed
  returned,            \* producer -> the replies it received, in order
  \* Workers (outbound of the test)
  wloops,              \* worker -> iterations of its loop
  wpc,                 \* worker -> "start", "loop" or "done"
  wn,                  \* worker -> requests answered
  \* History
  observed,            \* the feedback (key, payload) the broker has handled
  replyLog,            \* what the broker sent on the inbound socket
  pendingDispatch,     \* worker -> messages sent to it since its last message
  drained,             \* keys of the messages dispatched from the buffer
  overwrote,           \* a buffered message was replaced before its dispatch
  dispatchLog,         \* what the broker sent on the outbound socket, and how
  dispatchCount,       \* key -> how many times a message with it was sent to a worker
  deferred,            \* the last pass served a feedback and left a ready request queued
  \* Scatter service (PushPullService)
  smessages,           \* self.messages
  scount,              \* how many messages the scatter override yields
  spc,                 \* "start", "recv", "loop", "pull" or "done"
  si,                  \* passes of the service's loop completed
  smessage,            \* message_data, the message of the current pass
  sgen,                \* what the generator scatter(...) has still to yield
  toService,           \* messages the service's broker socket has not read yet
  fromService,         \* messages of the service the broker has not read yet
  pushQ,               \* messages pushed that no pool worker has taken yet
  pool,                \* pool worker -> the message it works on, or Idle
  pullQ,               \* results the pull socket has not read yet
  \* History of the scatter service
  sSent,               \* messages the service sent on its broker socket
  sRecv,               \* messages the service received on its broker socket
  pushes,              \* push.send calls
  pulls,               \* pull.recv calls that returned
  handled,             \* handle_feedback calls for the current message
  scattered,           \* messages scatter(...) yields for the current message
  feedbackLog,         \* per reply sent: [scattered, pushed, handled, request, sent]
  \* Envelope translation (PushPullService)
  palm,                \* self.palm
  cache,               \* self.cache: key -> the message stored under it
  nkeys,               \* keys drawn from uuid4 so far
  inflight,            \* [key, original]: translated, the reply not yet translated
  palmLog              \* [key, original, reply, result] per translated reply

brokerVars ==
  <<inbound_components, messages, ledger, buffer, poller, available_outbound,
    iter, brokerPc>>
socketVars == <<inboundQ, outboundQ, toProducer, toWorker, open>>
producerVars == <<prange, ppc, pn, returned>>
workerVars == <<wloops, wpc, wn>>
historyVars ==
  <<observed, replyLog, pendingDispatch, drained, overwrote, dispatchLog,
    dispatchCount, deferred>>
serviceVars ==
  <<smessages, scount, spc, si, smessage, sgen, toService, fromService, pushQ, pool, pullQ,
    sSent, sRecv, pushes, pulls, handled, scattered, feedbackLog>>
palmVars == <<palm, cache, nkeys, inflight, palmLog>>
vars ==
  <<brokerVars, socketVars, producerVars, workerVars, historyVars, serviceVars,
    palmVars>>

BrokerSockets == {"inbound", "outbound"}
ServiceSockets == {"push", "pull", "broker"}
Idle == << >>

\* --------------------------------------------------------- construction

\* Broker.register_inbound
register_inbound(components, name, route, block) ==
  DictSet(components, name, [route |-> route, block |-> block])

\* range(...) of a producer that sends nothing.
NoRange == [start |-> 0, stop |-> 0, step |-> 1, echo |-> FALSE]

\* A broker that polls both sockets from the start.
InitialPollerBoth == {"inbound", "outbound"}

\* self.poller.register(self.outbound, zmq.POLLIN): the sockets polled at first
InitialPoller == {"outbound"}

\* The state Broker.__init__ leaves, with the given registrations.
BrokerInit(components, n) ==
  /\ inbound_components = components
  /\ messages = n
  /\ ledger = EmptyDict
  /\ buffer = EmptyDict
  /\ poller = InitialPoller
  /\ available_outbound = << >>
  /\ iter = 0
  /\ brokerPc = "running"

\* Threads created, nothing sent yet.
ThreadsInit(ranges, loops) ==
  /\ inboundQ = EmptyDict
  /\ outboundQ = EmptyDict
  /\ toProducer = [p \in Producers |-> << >>]
  /\ toWorker = [w \in Workers |-> << >>]
  /\ prange = ranges
  /\ ppc = [p \in Producers |-> IF RangeLen(ranges[p]) = 0 THEN "done" ELSE "send"]
  /\ pn = [p \in Producers |-> 0]
  /\ returned = [p \in Producers |-> << >>]
  /\ wloops = loops
  /\ wpc = [w \in Workers |-> IF loops[w] < 0 THEN "done" ELSE "start"]
  /\ wn = [w \in Workers |-> 0]
  /\ observed = {}
  /\ replyLog = {}
  /\ pendingDispatch = [w \in Workers |-> 0]
  /\ drained = {}
  /\ overwrote = FALSE
  /\ dispatchLog = {}
  /\ dispatchCount = EmptyDict
  /\ deferred = FALSE

\* test_feedback: the registrations, the three threads and their ranges.
TestComponents ==
  register_inbound(
    register_inbound(
      register_inbound(EmptyDict, "inbound1", "outbound", TRUE),
      "inbound2", "outbound", FALSE),
    "outbound", "", FALSE)

TestRanges ==
  [p \in Producers |->
     CASE p = "inbound1" -> [start |-> 0, stop |-> TestStop, step |-> 2, echo |-> TRUE]
       [] p = "inbound2" -> [start |-> 1, stop |-> TestStop, step |-> 2, echo |-> FALSE]
       [] OTHER -> NoRange]

TestLoops == [w \in Workers |-> IF w = "outbound" THEN TestWorkerLoops ELSE -1]

\* A broker with a blocking and a non-blocking producer routed to one worker,
\* a producer routed to a second worker, a producer with no route and a
\* producer that was never registered.
GeneralComponents ==
  register_inbound(
    register_inbound(
      register_inbound(
        register_inbound(EmptyDict, "inbound1", "outbound", TRUE),
        "inbound2", "outbound", FALSE),
      "inbound3", "outbound2", FALSE),
    "inbound4", "", FALSE)

GeneralRanges ==
  [p \in Producers |->
     CASE p = "inbound1" -> [start |-> 0, stop |-> 2 * NumReq, step |-> 2, echo |-> TRUE]
       [] p = "inbound2" -> [start |-> 1, stop |-> 2 * NumReq, step |-> 2, echo |-> FALSE]
       [] p = "inbound3" -> [start |-> 1, stop |-> 2 * NumReq, step |-> 2, echo |-> FALSE]
       [] p = "inbound4" -> [start |-> 1, stop |-> 2, step |-> 2, echo |-> FALSE]
       [] OTHER -> [start |-> 1, stop |-> 2, step |-> 2, echo |-> FALSE]]

GeneralLoops == [w \in Workers |-> WorkerLoops]

\* The state PushPullService.__init__ leaves; count is the number of messages
\* the scatter override in use yields.
ServiceInit(n, count) ==
  /\ smessages = n
  /\ scount = count
  /\ spc = "start"
  /\ si = 0
  /\ smessage = << >>
  /\ sgen = << >>
  /\ toService = << >>
  /\ fromService = << >>
  /\ pushQ = << >>
  /\ pool = [w \in PoolWorkers |-> Idle]
  /\ pullQ = << >>
  /\ sSent = 0
  /\ sRecv = 0
  /\ pushes = 0
  /\ pulls = 0
  /\ handled = 0
  /\ scattered = 0
  /\ feedbackLog = << >>

\* The translation state PushPullService.__init__ leaves: an empty cache.
PalmInit(flag) ==
  /\ palm = flag
  /\ cache = EmptyDict
  /\ nkeys = 0
  /\ inflight = {}
  /\ palmLog = {}

Init ==
  /\ BrokerInit(GeneralComponents, MaxMessages)
  /\ ThreadsInit(GeneralRanges, GeneralLoops)
  /\ ServiceInit(0, 1)
  /\ PalmInit(FALSE)
  /\ open = BrokerSockets

InitFeedback ==
  /\ BrokerInit(TestComponents, TestMessages)
  /\ ThreadsInit(TestRanges, TestLoops)
  /\ ServiceInit(0, 1)
  /\ PalmInit(FALSE)
  /\ open = BrokerSockets

\* A scatter service alone, with the default scatter (one message), the
\* override of the scatter example (three) or any other count up to MaxScatter.
InitScatter ==
  /\ BrokerInit(EmptyDict, 0)
  /\ ThreadsInit([p \in Producers |-> NoRange], [w \in Workers |-> -1])
  /\ \E count \in 0..MaxScatter : ServiceInit(ServiceMessages, count)
  /\ PalmInit(FALSE)
  /\ open = ServiceSockets

\* A service that only translates messages, PALM or binary.
InitPalm ==
  /\ BrokerInit(EmptyDict, 0)
  /\ ThreadsInit([p \in Producers |-> NoRange], [w \in Workers |-> -1])
  /\ ServiceInit(0, 1)
  /\ \E flag \in BOOLEAN : PalmInit(flag)
  /\ open = ServiceSockets

\* ---------------------------------------------------------------- broker

\* What poller.poll() can return: the registered sockets with a message
\* waiting.  poll() blocks while there is none.
Event ==
  {sock \in poller :
     \/ sock = "outbound" /\ DOMAIN outboundQ # {}
     \/ sock = "inbound" /\ DOMAIN inboundQ # {}}

\* if self.outbound in event: the outbound socket is served whenever it is ready.
OutboundTurn(event) == "outbound" \in event

\* A broker that serves the inbound socket whenever it is ready.
InboundTurnAny(event) == "inbound" \in event

\* elif self.inbound in event: the inbound socket is served when it is ready
\* and the outbound socket is not.
InboundTurn(event) == "outbound" \notin event /\ "inbound" \in event

\* A broker that takes the empty route for the name of a worker.
NoRouteNever(route_to) == FALSE

\* if not route_to
NoRoute(route_to) == route_to = ""

\* A broker that lists a worker as available although it just sent it the
\* buffered message.
AvailableAlwaysAppended(available, component, buffered) ==
  Append(available, component)

\* The list of available workers after a worker's message: the worker is
\* appended unless a buffered message was sent to it.
AvailableAfterFeedback(available, component, buffered) ==
  IF buffered THEN available ELSE Append(available, component)

\* A broker that leaves the buffered message in the buffer when it sends it.
BufferKeptAfterDrain(buf, component) == buf

\* self.buffer.pop(component)
BufferAfterDrain(buf, component) == DictPop(buf, component)

\* A broker that forwards every feedback to the producer named in its key.
RecipientsByKey(led, key) ==
  IF key \in DOMAIN led THEN {led[key]}
  ELSE IF key[1] \in Producers THEN {key[1]} ELSE {}

\* if broker_message.key in self.ledger: the producer to send the payload to
Recipients(led, key) == IF key \in DOMAIN led THEN {led[key]} ELSE {}

\* The position of a worker in the list of available workers.
Position(available, route_to) ==
  CHOOSE i \in 1..Len(available) :
    available[i] = route_to /\ \A j \in 1..(i - 1) : available[j] # route_to

\* What the broker records of a message it sends on the outbound socket.
Dispatch(component, broker_message, via, pos) ==
  [to |-> component, key |-> broker_message.key, payload |-> broker_message.payload,
   via |-> via, pos |-> pos]

\* One more message with this key sent to a worker.
Counted(counts, key) ==
  DictSet(counts, key, IF key \in DOMAIN counts THEN counts[key] + 1 ELSE 1)

\* for i in range(self.messages): the state of the loop after one more pass.
LoopAfter(n) == IF n + 1 < messages THEN "running" ELSE "done"

\* A broker that reads the inbound socket again while a reply is still owed.
ListenAgainNoLedger(available, buf, led) ==
  available # << >> /\ buf = EmptyDict

\* if available_outbound and not self.buffer and not self.ledger
ListenAgain(available, buf, led) ==
  available # << >> /\ buf = EmptyDict /\ led = EmptyDict

\* self.poller.register(self.inbound, zmq.POLLIN)
PollerRegister(pl) == pl \cup {"inbound"}

\* A broker that goes on reading the inbound socket after it buffered a message.
PollerKeptAfterBuffer(pl) == pl

\* self.poller.unregister(self.inbound), after buffering a message
PollerAfterBuffer(pl) == pl \ {"inbound"}

\* self.poller.unregister(self.inbound), after a blocking producer's dispatch
PollerAfterBlock(pl) == pl \ {"inbound"}

\* A broker that leaves the worker it dispatched to in the list.
AvailableKeptAfterDispatch(available, route_to) == available

\* A broker that takes the worker at the head of the list.
AvailablePopHead(available, route_to) == Tail(available)

\* available_outbound.remove(route_to)
AvailableAfterDispatch(available, route_to) == ListRemove(available, route_to)

\* self.ledger[broker_message.key] = component
LedgerAfterDispatch(led, key, component) == DictSet(led, key, component)

\* What the broker records of a message it sends on the inbound socket.
Reply(component, key, payload, kind) ==
  [to |-> component, key |-> key, payload |-> payload, kind |-> kind]

\* if self.outbound in event: one feedback of a worker.
BrokerOutbound ==
  /\ brokerPc = "running"
  /\ OutboundTurn(Event)
  /\ \E component \in DOMAIN outboundQ :
       LET feedback == outboundQ[component]
           broker_message == Parse(feedback)
           buffered == component \in DOMAIN buffer
           buffer1 == IF buffered THEN BufferAfterDrain(buffer, component) ELSE buffer
           available1 == AvailableAfterFeedback(available_outbound, component, buffered)
           recipients == Recipients(ledger, broker_message.key)
           waiting == recipients # {}
           target == CHOOSE c \in recipients : TRUE
           ledger1 == IF waiting THEN DictPop(ledger, broker_message.key) ELSE ledger
       IN  /\ outboundQ' = DictPop(outboundQ, component)
           /\ buffer' = buffer1
           /\ available_outbound' = available1
           /\ toWorker' =
                IF buffered
                THEN [toWorker EXCEPT ![component] = Append(@, buffer[component])]
                ELSE toWorker
           /\ ledger' = ledger1
           /\ toProducer' =
                IF waiting
                THEN [toProducer EXCEPT ![target] = Append(@, broker_message.payload)]
                ELSE toProducer
           /\ poller' = IF ListenAgain(available1, buffer1, ledger1)
                        THEN PollerRegister(poller) ELSE poller
           /\ observed' = observed \cup {broker_message}
           /\ replyLog' =
                IF waiting
                THEN replyLog \cup {Reply(target, broker_message.key,
                                          broker_message.payload, "feedback")}
                ELSE replyLog
           /\ pendingDispatch' =
                [pendingDispatch EXCEPT ![component] = IF buffered THEN 1 ELSE 0]
           /\ drained' = IF buffered THEN drained \cup {Parse(buffer[component]).key}
                         ELSE drained
           /\ dispatchLog' =
                IF buffered
                THEN dispatchLog \cup
                       {Dispatch(component, Parse(buffer[component]), "buffer", 0)}
                ELSE dispatchLog
           /\ dispatchCount' =
                IF buffered THEN Counted(dispatchCount, Parse(buffer[component]).key)
                ELSE dispatchCount
           /\ deferred' = ("inbound" \in Event)
  /\ iter' = iter + 1
  /\ brokerPc' = LoopAfter(iter)
  /\ UNCHANGED <<inbound_components, messages, inboundQ, open, overwrote>>
  /\ UNCHANGED <<producerVars, workerVars, serviceVars, palmVars>>

\* elif self.inbound in event: one request of a producer.
BrokerInbound ==
  /\ brokerPc = "running"
  /\ InboundTurn(Event)
  /\ \E component \in DOMAIN inboundQ :
       LET message_data == inboundQ[component]
           broker_message == Parse(message_data)
       IN  /\ inboundQ' = DictPop(inboundQ, component)
           /\ IF component \notin DOMAIN inbound_components
              THEN \* self.inbound_components[component] raises KeyError
                   /\ brokerPc' = "crashed"
                   /\ UNCHANGED <<iter, available_outbound, toWorker, toProducer,
                                  ledger, buffer, poller, historyVars>>
              ELSE
                LET route_to == inbound_components[component].route
                    block == inbound_components[component].block
                IN  /\ iter' = iter + 1
                    /\ brokerPc' = LoopAfter(iter)
                    /\ IF NoRoute(route_to)
                       THEN /\ toProducer' = [toProducer EXCEPT ![component] = Append(@, Ack)]
                            /\ replyLog' = replyLog \cup
                                 {Reply(component, broker_message.key, Ack, "ack")}
                            /\ UNCHANGED <<available_outbound, toWorker, ledger, buffer,
                                           poller, pendingDispatch, overwrote,
                                           dispatchLog, dispatchCount>>
                       ELSE IF ListIn(route_to, available_outbound)
                       THEN /\ available_outbound' =
                                 AvailableAfterDispatch(available_outbound, route_to)
                            /\ toWorker' = [toWorker EXCEPT ![route_to] =
                                              Append(@, Serialize(broker_message))]
                            /\ pendingDispatch' =
                                 [pendingDispatch EXCEPT ![route_to] = @ + 1]
                            /\ dispatchLog' = dispatchLog \cup
                                 {Dispatch(route_to, Parse(Serialize(broker_message)),
                                           "direct",
                                           Position(available_outbound, route_to))}
                            /\ dispatchCount' =
                                 Counted(dispatchCount, broker_message.key)
                            /\ IF ~block
                               THEN /\ toProducer' =
                                         [toProducer EXCEPT ![component] = Append(@, Ack)]
                                    /\ replyLog' = replyLog \cup
                                         {Reply(component, broker_message.key, Ack, "ack")}
                                    /\ UNCHANGED <<ledger, poller>>
                               ELSE /\ ledger' = LedgerAfterDispatch(
                                         ledger, broker_message.key, component)
                                    /\ poller' = PollerAfterBlock(poller)
                                    /\ UNCHANGED <<toProducer, replyLog>>
                            /\ UNCHANGED <<buffer, overwrote>>
                       ELSE /\ buffer' = DictSet(buffer, route_to, Serialize(broker_message))
                            /\ overwrote' = (overwrote \/ route_to \in DOMAIN buffer)
                            /\ poller' = PollerAfterBuffer(poller)
                            /\ UNCHANGED <<available_outbound, toWorker, toProducer,
                                           ledger, replyLog, pendingDispatch,
                                           dispatchLog, dispatchCount>>
                    /\ deferred' = FALSE
                    /\ UNCHANGED <<observed, drained>>
  /\ UNCHANGED <<inbound_components, messages, outboundQ, open>>
  /\ UNCHANGED <<producerVars, workerVars, serviceVars, palmVars>>

\* -------------------------------------------------------------- producers

\* The payload of the request a producer sends in pass n of its loop.
Value(p, n) == prange[p].start + n * prange[p].step

\* broker.send(broker_message.SerializeToString()) of inbound1 and inbound2
ProducerSend(p) ==
  /\ ppc[p] = "send"
  /\ inboundQ' = DictSet(inboundQ, p,
       Serialize([key |-> FreshKey(p, pn[p]), payload |-> ToString(Value(p, pn[p]))]))
  /\ ppc' = [ppc EXCEPT ![p] = "recv"]
  /\ UNCHANGED <<brokerVars, outboundQ, toProducer, toWorker, open, prange, pn,
                 returned, workerVars, historyVars, serviceVars, palmVars>>

\* assert int(returned) == i (inbound1), assert int(returned) == 1 (inbound2)
Expected(p, n) == IF prange[p].echo THEN ToString(Value(p, n)) ELSE Ack

\* returned = broker.recv(), the assertion, and the next pass of the loop
ProducerRecv(p) ==
  /\ ppc[p] = "recv"
  /\ toProducer[p] # << >>
  /\ toProducer' = [toProducer EXCEPT ![p] = Tail(@)]
  /\ returned' = [returned EXCEPT ![p] = Append(@, Head(toProducer[p]))]
  /\ IF Head(toProducer[p]) = Expected(p, pn[p])
     THEN /\ pn' = [pn EXCEPT ![p] = @ + 1]
          /\ ppc' = [ppc EXCEPT ![p] =
                       IF pn[p] + 1 < RangeLen(prange[p]) THEN "send" ELSE "done"]
     ELSE /\ ppc' = [ppc EXCEPT ![p] = "failed"]
          /\ UNCHANGED pn
  /\ UNCHANGED <<brokerVars, inboundQ, outboundQ, toWorker, open, prange,
                 workerVars, historyVars, serviceVars, palmVars>>

\* ---------------------------------------------------------------- workers

\* outbound: the first message, key '0' and payload b'READY'
WorkerReady(w) ==
  /\ wpc[w] = "start"
  /\ outboundQ' = DictSet(outboundQ, w, Serialize([key |-> ReadyKey, payload |-> Ready]))
  /\ wpc' = [wpc EXCEPT ![w] = IF wloops[w] > 0 THEN "loop" ELSE "done"]
  /\ UNCHANGED <<brokerVars, inboundQ, toProducer, toWorker, open, producerVars,
                 wloops, wn, historyVars, serviceVars, palmVars>>

\* outbound: broker_message.ParseFromString(broker.recv()); broker.send(...)
WorkerEcho(w) ==
  /\ wpc[w] = "loop"
  /\ toWorker[w] # << >>
  /\ toWorker' = [toWorker EXCEPT ![w] = Tail(@)]
  /\ outboundQ' = DictSet(outboundQ, w, Serialize(Parse(Head(toWorker[w]))))
  /\ wn' = [wn EXCEPT ![w] = @ + 1]
  /\ wpc' = [wpc EXCEPT ![w] = IF wn[w] + 1 < wloops[w] THEN "loop" ELSE "done"]
  /\ UNCHANGED <<brokerVars, inboundQ, toProducer, open, producerVars, wloops,
                 historyVars, serviceVars, palmVars>>

\* -------------------------------------------------------- scatter service

otherVars == <<brokerVars, inboundQ, outboundQ, toProducer, toWorker,
               producerVars, workerVars, historyVars, palmVars>>

\* PushPullService.scatter and its overrides: a generator of scount messages,
\* each the message it was given (the default yields one, MyMaster three).
scatter(message_data) == [k \in 1..scount |-> message_data]

\* PushPullService.reply_feedback
reply_feedback == "0"

\* A service that pushes the next message without waiting for the pull.
AfterPushNoPull == "loop"

\* The state of the service after push.send: it waits in pull.recv.
AfterPush == "pull"

\* A service that replies without going through the messages of scatter(...).
ExhaustedAtOnce(gen) == TRUE

\* The for loop over scatter(...) has no message left.
Exhausted(gen) == gen = << >>

\* The state of the service after a reply: the next pass, or the loop's end.
AfterReply(n) == IF n + 1 < smessages THEN "recv" ELSE "done"

\* start: the initial message, key '0' and payload b'0'
ServiceStart ==
  /\ spc = "start"
  /\ fromService' = Append(fromService, Serialize([key |-> ReadyKey, payload |-> "0"]))
  /\ sSent' = sSent + 1
  /\ spc' = IF smessages > 0 THEN "recv" ELSE "done"
  /\ UNCHANGED <<smessage, smessages, scount, si, sgen, toService, pushQ, pool, pullQ, sRecv,
                 pushes, pulls, handled, scattered, feedbackLog, open, otherVars>>

\* message_data = self.broker.recv(); for scattered in self.scatter(message_data)
ServiceRecv ==
  /\ spc = "recv"
  /\ toService # << >>
  /\ toService' = Tail(toService)
  /\ smessage' = Head(toService)
  /\ sgen' = scatter(Head(toService))
  /\ scattered' = Len(scatter(Head(toService)))
  /\ handled' = 0
  /\ sRecv' = sRecv + 1
  /\ spc' = "loop"
  /\ UNCHANGED <<smessages, scount, si, fromService, pushQ, pool, pullQ, sSent,
                 pushes, pulls, feedbackLog, open, otherVars>>

\* self.push.send(scattered)
ServicePush ==
  /\ spc = "loop"
  /\ ~ Exhausted(sgen)
  /\ pushQ' = Append(pushQ, Head(sgen))
  /\ sgen' = Tail(sgen)
  /\ pushes' = pushes + 1
  /\ spc' = AfterPush
  /\ UNCHANGED <<smessage, smessages, scount, si, toService, fromService, pool, pullQ, sSent,
                 sRecv, pulls, handled, scattered, feedbackLog, open, otherVars>>

\* self.handle_feedback(self.pull.recv())
ServicePull ==
  /\ spc = "pull"
  /\ pullQ # << >>
  /\ pullQ' = Tail(pullQ)
  /\ pulls' = pulls + 1
  /\ handled' = handled + 1
  /\ spc' = "loop"
  /\ UNCHANGED <<smessage, smessages, scount, si, sgen, toService, fromService, pushQ, pool,
                 sSent, sRecv, pushes, scattered, feedbackLog, open, otherVars>>

\* self.broker.send(self.reply_feedback()), and the next pass of the loop
ServiceReply ==
  /\ spc = "loop"
  /\ Exhausted(sgen)
  /\ fromService' = Append(fromService, Raw(reply_feedback))
  /\ sSent' = sSent + 1
  /\ feedbackLog' = Append(feedbackLog,
       [scattered |-> scattered, pushed |-> scattered - Len(sgen), handled |-> handled,
        request |-> smessage, sent |-> Raw(reply_feedback)])
  /\ si' = si + 1
  /\ spc' = AfterReply(si)
  /\ UNCHANGED <<smessage, smessages, scount, sgen, toService, pushQ, pool, pullQ, sRecv,
                 pushes, pulls, handled, scattered, open, otherVars>>

\* PushPullService.cleanup, once start has returned
ServiceCleanup ==
  /\ spc = "done"
  /\ open \cap ServiceSockets # {}
  /\ open' = open \ ServiceSockets
  /\ UNCHANGED <<serviceVars, otherVars>>

\* The broker reads a message of the service and, the service being available
\* then, sends it the next producer's message.
BrokerToService ==
  /\ fromService # << >>
  /\ toService = << >>
  /\ fromService' = Tail(fromService)
  /\ \E payload \in ServicePayloads :
       toService' = Append(toService,
         Serialize([key |-> FreshKey("inbound", sSent), payload |-> payload]))
  /\ UNCHANGED <<smessage, smessages, scount, spc, si, sgen, pushQ, pool, pullQ, sSent, sRecv,
                 pushes, pulls, handled, scattered, feedbackLog, open, otherVars>>

\* A pool worker takes a pushed message.
PoolTake(w) ==
  /\ pool[w] = Idle
  /\ pushQ # << >>
  /\ pool' = [pool EXCEPT ![w] = Head(pushQ)]
  /\ pushQ' = Tail(pushQ)
  /\ UNCHANGED <<smessage, smessages, scount, spc, si, sgen, toService, fromService, pullQ,
                 sSent, sRecv, pushes, pulls, handled, scattered, feedbackLog, open,
                 otherVars>>

\* A pool worker sends its result to the pull socket.
PoolSend(w) ==
  /\ pool[w] # Idle
  /\ pullQ' = Append(pullQ, pool[w])
  /\ pool' = [pool EXCEPT ![w] = Idle]
  /\ UNCHANGED <<smessage, smessages, scount, spc, si, sgen, toService, fromService, pushQ,
                 sSent, sRecv, pushes, pulls, handled, scattered, feedbackLog, open,
                 otherVars>>

\* ---------------------------------------------------- envelope translation

\* The PALM messages and the binary messages a client sends.
PalmEnvelopes ==
  {[client |-> c, pipeline |-> "p", function |-> "f", stage |-> 0, payload |-> b] :
     c \in {"c1", "c2"}, b \in {"hello", "bye"}}
BinaryMessages == {"hello", "bye"}
\* The payloads of the replies that come back from the broker.
ReplyPayloads == {"HELLO", "bye"}

\* self.cache.set(broker_message_key, message_data), for a PALM message only
CacheAfterTranslate(c, key, message_data) ==
  IF palm THEN DictSet(c, key, message_data) ELSE c

\* PushPullService._translate_to_broker, with the key uuid4 returned
translate_to_broker(message_data, key) ==
  LET payload == IF palm THEN ParsePalm(message_data).payload ELSE message_data
  IN  Serialize([key |-> key, payload |-> payload])

\* A translation that returns the stored message as it was received.
translate_from_broker_stored(c, message_data) ==
  IF palm THEN c[Parse(message_data).key] ELSE Parse(message_data).payload

\* PushPullService._translate_from_broker
translate_from_broker(c, message_data) ==
  LET broker_message == Parse(message_data)
  IN  IF palm
      THEN SerializePalm([ParsePalm(c[broker_message.key])
                            EXCEPT !.payload = broker_message.payload])
      ELSE broker_message.payload

\* A client's message is translated for the broker.
TranslateTo ==
  /\ nkeys < MaxTranslations
  /\ \E message_data \in
          IF palm THEN {SerializePalm(e) : e \in PalmEnvelopes} ELSE BinaryMessages :
       LET key == FreshKey("service", nkeys)
           sent == translate_to_broker(message_data, key)
       IN  /\ cache' = CacheAfterTranslate(cache, key, message_data)
           /\ inflight' = inflight \cup
                {[key |-> Parse(sent).key, payload |-> Parse(sent).payload,
                  original |-> message_data]}
  /\ nkeys' = nkeys + 1
  /\ UNCHANGED <<palm, palmLog, brokerVars, socketVars, producerVars, workerVars,
                 historyVars, serviceVars>>

\* The broker's reply to one of the messages in flight is translated back.
TranslateFrom ==
  /\ \E f \in inflight :
       \E reply \in ReplyPayloads :
         /\ palmLog' = palmLog \cup
              {[key |-> f.key, original |-> f.original, reply |-> reply,
                result |-> translate_from_broker(
                             cache, Serialize([key |-> f.key, payload |-> reply]))]}
         /\ inflight' = inflight \ {f}
  /\ UNCHANGED <<palm, cache, nkeys, brokerVars, socketVars, producerVars,
                 workerVars, historyVars, serviceVars>>

\* ------------------------------------------------------------------ specs

Next ==
  \/ BrokerOutbound
  \/ BrokerInbound
  \/ \E p \in Producers : ProducerSend(p)
  \/ \E p \in Producers : ProducerRecv(p)
  \/ \E w \in Workers : WorkerReady(w)
  \/ \E w \in Workers : WorkerEcho(w)

\* The general configuration.
Spec == Init /\ [][Next]_vars

\* test_feedback.
SpecFeedback == InitFeedback /\ [][Next]_vars

NextScatter ==
  \/ ServiceStart
  \/ ServiceRecv
  \/ ServicePush
  \/ ServicePull
  \/ ServiceReply
  \/ ServiceCleanup
  \/ BrokerToService
  \/ \E w \in PoolWorkers : PoolTake(w)
  \/ \E w \in PoolWorkers : PoolSend(w)

\* The scatter service with its worker pool.
SpecScatter == InitScatter /\ [][NextScatter]_vars

NextPalm ==
  \/ TranslateTo
  \/ TranslateFrom

\* The translation between a client's messages and the broker's.
SpecPalm == InitPalm /\ [][NextPalm]_vars

\* ----------------------------------------------------------------- claims

\* The producers registered with a route to a worker, blocking or not.
Routed(block) ==
  {p \in Producers \cap DOMAIN inbound_components :
     inbound_components[p].route # "" /\ inbound_components[p].block = block}

\* The broker's replies to producer p for the request with key k.
RepliesFor(p, k) == {r \in replyLog : r.to = p /\ r.key = k}

\* C1: every request of a blocking producer gets exactly one reply, the reply
\* to the feedback that carries the request's key, with that feedback's
\* payload: once the broker has handled the feedback with a blocking
\* producer's key, it has sent that payload (and nothing else) to the producer,
\* and what the producer received for request n is the payload it sent in it.
C1_BlockingProducerReplied ==
  \A p \in Routed(TRUE) :
    /\ \A f \in observed :
         f.key[1] = p =>
           RepliesFor(p, f.key) = {Reply(p, f.key, f.payload, "feedback")}
    /\ \A n \in 1..Len(returned[p]) : returned[p][n] = ToString(Value(p, n - 1))

\* C2: every request of a non-blocking producer routed to a worker is answered
\* with the acknowledgement b'1', once, whatever the worker's state when the
\* request arrived: once the worker's feedback for the request has come back,
\* the broker has sent the producer exactly the acknowledgement.
C2_NonBlockingAcknowledged ==
  \A p \in Routed(FALSE) :
    /\ \A f \in observed :
         f.key[1] = p => RepliesFor(p, f.key) = {Reply(p, f.key, Ack, "ack")}
    /\ \A n \in 1..Len(returned[p]) : returned[p][n] = Ack

\* Every thread of test_feedback has returned.
AllTerminated ==
  /\ brokerPc = "done"
  /\ \A p \in Producers : ppc[p] = "done"
  /\ \A w \in Workers : wpc[w] = "done"

\* C3: in test_feedback every interleaving ends with the broker, inbound1,
\* inbound2 and the worker terminated: a state in which no thread can take a
\* step is a state in which all of them have returned, inbound1 with its five
\* payloads, inbound2 with five acknowledgements, the worker after ten echoes.
C3_FeedbackScenarioTerminates ==
  (~ ENABLED Next) =>
    /\ AllTerminated
    /\ iter = messages
    /\ Len(returned["inbound1"]) = RangeLen(prange["inbound1"])
    /\ Len(returned["inbound2"]) = RangeLen(prange["inbound2"])
    /\ wn["outbound"] = wloops["outbound"]

\* C4: a worker is sent at most one message between two of its own messages
\* to the broker, whether the message is dispatched directly or from the
\* buffer.
C4_OneDispatchPerFeedback ==
  \A w \in Workers : pendingDispatch[w] <= 1 /\ Len(toWorker[w]) <= 1

\* C4 witness: a worker holds a dispatch that came from the buffer, so both
\* ways of dispatching have acted on it.
C4_Witness ==
  \E w \in Workers :
    /\ pendingDispatch[w] = 1
    /\ toWorker[w] # << >>
    /\ Parse(toWorker[w][1]).key \in drained
    /\ wn[w] >= 1

\* C5: a blocking producer's message that the broker took from the buffer and
\* sent to its worker has its key in the ledger until that worker's feedback
\* for it arrives, and then the producer has been sent the feedback's payload,
\* the worker is available again and ledger and buffer are empty.
C5_BufferedBlockingRequest ==
  \A k \in drained :
    k[1] \in Routed(TRUE) =>
      IF \E f \in observed : f.key = k
      THEN \E f \in observed :
             f.key = k /\ Reply(k[1], k, f.payload, "feedback") \in replyLog
      ELSE k \in DOMAIN ledger /\ ledger[k] = k[1]

\* C6: the loop ends after exactly max_messages iterations and the broker then
\* closes its inbound and outbound sockets.
C6_BrokerExitsAndCloses ==
  brokerPc = "done" => iter = messages /\ open \cap BrokerSockets = {}

\* C7: the buffer holds at most one message, and no message is stored into a
\* slot that is occupied.
C7_SingleSlotBuffer == Cardinality(DOMAIN buffer) <= 1 /\ ~ overwrote

\* C7 witness: a message is buffered for a worker while another producer's
\* request for the same worker waits unread on the inbound socket.
C7_Witness ==
  \E w \in DOMAIN buffer :
    \E p \in DOMAIN inboundQ :
      /\ p \in DOMAIN inbound_components
      /\ inbound_components[p].route = w
      /\ pendingDispatch[w] = 1

\* C8: a message from an identity that was never registered is dropped and
\* the loop goes on: the broker has not stopped on it.
C8_UnknownIdentityDropped ==
  \A p \in Producers \ DOMAIN inbound_components :
    (ppc[p] = "recv" /\ p \notin DOMAIN inboundQ) => brokerPc # "crashed"

\* Messages pushed to the pool whose result the service has not read yet.
Outstanding ==
  Len(pushQ) + Cardinality({w \in PoolWorkers : pool[w] # Idle}) + Len(pullQ)

\* C9: in the scatter service each push is paired with one pull before the
\* next push: pushes and pulls alternate starting with a push, at most one
\* scattered message is outstanding, and when the loop over scatter(...) ends
\* handle_feedback has been called once per message that scatter yielded.
C9_PushPullAlternate ==
  /\ pushes - pulls \in {0, 1}
  /\ Outstanding = pushes - pulls
  /\ (pushes - pulls = 1) <=> (spc = "pull")
  /\ spc \in {"loop", "pull"} =>
       handled + Len(sgen) + (pushes - pulls) = scattered
  /\ \A n \in 1..Len(feedbackLog) :
       feedbackLog[n].handled = feedbackLog[n].scattered

\* C9 witness: with a scatter that yields three messages, the third has been
\* pushed after two were handled.
C9_Witness ==
  /\ scount = 3
  /\ handled = 2
  /\ spc = "pull"
  /\ Outstanding = 1

\* C10: the service sends one reply_feedback() per message it receives from
\* the broker, after every message of scatter(...) was pushed and handled (for
\* three messages as for none); sends and receives on its broker socket
\* alternate, starting with the initial message, for at most max_messages
\* received messages.
C10_OneReplyPerMessage ==
  /\ sSent - sRecv \in {0, 1}
  /\ (sSent - sRecv = 0) <=> (spc \in {"start", "loop", "pull"})
  /\ sRecv <= smessages
  /\ Len(feedbackLog) = si
  /\ si = IF spc \in {"loop", "pull"} THEN sRecv - 1 ELSE sRecv
  /\ spc # "start" => sSent = 1 + Len(feedbackLog)
  /\ \A n \in 1..Len(feedbackLog) :
       /\ feedbackLog[n].pushed = feedbackLog[n].scattered
       /\ feedbackLog[n].handled = feedbackLog[n].scattered
       /\ feedbackLog[n].scattered = scount

\* C10 witness: the service has replied to max_messages messages, each
\* scattered into three.
C10_Witness ==
  /\ scount = 3
  /\ spc = "done"
  /\ Len(feedbackLog) = smessages
  /\ smessages >= 2

\* C11: a worker's first message is the ready envelope with key "0" and each
\* later message carries the key of the request it answers, for the echoing
\* worker of the test and for the scatter service: what either has sent to
\* the broker is a BrokerMessage, the first with the ready key, and each reply
\* of the service carries the key of the message it replies to.
C11_WorkerContract ==
  /\ \A w \in DOMAIN outboundQ :
       /\ Decodable(outboundQ[w])
       /\ (wn[w] = 0) <=> (Parse(outboundQ[w]).key = ReadyKey)
  /\ \A n \in 1..Len(fromService) : Decodable(fromService[n])
  /\ (sSent = 1 /\ fromService # << >>) => Parse(fromService[1]).key = ReadyKey
  /\ \A n \in 1..Len(feedbackLog) :
       /\ Decodable(feedbackLog[n].sent)
       /\ Parse(feedbackLog[n].sent).key = Parse(feedbackLog[n].request).key

\* C12: translating a PALM message E for the broker and translating back a
\* reply with the same key gives E with its payload replaced by the reply's and
\* every other field as it was, with E stored in the cache under the key while
\* in flight; for a binary message the cache is not touched and the result is
\* the reply's payload; for any number of messages in flight and any order of
\* the replies.
C12_PalmRoundTrip ==
  /\ \A f \in inflight :
       /\ f.payload = IF palm THEN ParsePalm(f.original).payload ELSE f.original
       /\ palm => f.key \in DOMAIN cache /\ cache[f.key] = f.original
  /\ ~ palm => cache = EmptyDict
  /\ \A r \in palmLog :
       IF palm
       THEN ParsePalm(r.result) = [ParsePalm(r.original) EXCEPT !.payload = r.reply]
       ELSE r.result = r.reply

\* C12 witness: two PALM messages of different clients were in flight and the
\* reply to the second was translated back first, with a new payload.
C12_Witness ==
  /\ palm
  /\ \E f \in inflight :
       \E r \in palmLog :
         /\ f.key[2] < r.key[2]
         /\ ParsePalm(f.original).client # ParsePalm(r.original).client
         /\ r.reply # ParsePalm(r.original).payload
         /\ ParsePalm(r.result).payload = r.reply

\* The broker took a message off the inbound socket in this step.
InboundHandled ==
  DOMAIN inboundQ' # DOMAIN inboundQ /\ DOMAIN inboundQ' \subseteq DOMAIN inboundQ

\* The broker took a message off the outbound socket in this step.
OutboundHandled ==
  DOMAIN outboundQ' # DOMAIN outboundQ /\ DOMAIN outboundQ' \subseteq DOMAIN outboundQ

\* C13: the broker handles an inbound event only while the ledger and the
\* buffer are both empty, the inbound socket is polled only in such states,
\* and polling of the inbound socket is switched on again only by the
\* handling of an outbound event that leaves a worker available and the
\* buffer and the ledger empty.
C13_InboundOnlyWhenSettled ==
  [][/\ "inbound" \in poller => ledger = EmptyDict /\ buffer = EmptyDict
     /\ InboundHandled =>
          "inbound" \in poller /\ ledger = EmptyDict /\ buffer = EmptyDict
     /\ ("inbound" \notin poller /\ "inbound" \in poller') =>
          /\ OutboundHandled
          /\ available_outbound' # << >>
          /\ buffer' = EmptyDict
          /\ ledger' = EmptyDict]_vars

\* The broker stopped reading the inbound socket after a blocking dispatch,
\* a producer's request waited meanwhile, the worker's feedback emptied the
\* ledger, and the inbound socket is read again.
C13_Witness ==
  /\ "inbound" \in poller
  /\ DOMAIN inboundQ # {}
  /\ \E r \in replyLog : r.kind = "feedback"
  /\ drained # {}

\* The broker made one pass of its loop in this step.
BrokerStep == iter' # iter \/ brokerPc' # brokerPc

\* C14: when the inbound and the outbound socket are both ready in one pass
\* of the broker, the pass serves the outbound socket and takes nothing off
\* the inbound socket; a request is taken off the inbound socket only in a
\* pass in which the inbound socket is polled and the outbound socket is not
\* ready.
C14_OutboundServedFirst ==
  [][/\ (BrokerStep /\ Event = {"inbound", "outbound"}) =>
          OutboundHandled /\ inboundQ' = inboundQ
     /\ InboundHandled =>
          "inbound" \in poller /\ DOMAIN outboundQ = {}]_vars

\* A request was ready together with a feedback and stayed queued while the
\* last pass served the feedback; the inbound socket is still polled, so a
\* later pass takes the request.
C14_Witness ==
  /\ deferred
  /\ "inbound" \in Event
  /\ brokerPc = "running"

\* C15: a pass that takes the request of a producer registered with an empty
\* route sends that producer the acknowledgement and nothing else: nothing is
\* sent to a worker, and the available workers, the ledger, the buffer and
\* the polled sockets stay as they were.
C15_NoRouteOnlyAcknowledged ==
  [][\A c \in DOMAIN inboundQ :
       (/\ c \notin DOMAIN inboundQ'
        /\ c \in DOMAIN inbound_components
        /\ inbound_components[c].route = "") =>
         /\ toProducer' = [toProducer EXCEPT ![c] = Append(@, Ack)]
         /\ UNCHANGED <<toWorker, available_outbound, ledger, buffer, poller>>]_vars

\* A producer registered with an empty route was acknowledged, and its
\* request reached no worker.
C15_Witness ==
  \E r \in replyLog :
    /\ r.to \in DOMAIN inbound_components
    /\ inbound_components[r.to].route = ""
    /\ r.payload = Ack
    /\ r.key \notin DOMAIN dispatchCount

\* How many times a worker is in the list of available workers.
Occurrences(available, w) ==
  Cardinality({i \in 1..Len(available) : available[i] = w})

\* The worker holds a message of the broker whose feedback the broker has
\* not read yet.
Busy(w) == pendingDispatch[w] >= 1

\* The broker has read the worker's ready message.
Announced(w) ==
  /\ wpc[w] # "start"
  /\ ~ (w \in DOMAIN outboundQ /\ Parse(outboundQ[w]).payload = Ready)

\* C16: between two passes of the broker no worker is at once available and
\* busy, no worker is twice in the list of available workers, and every
\* worker whose ready message the broker has read is one or the other.
C16_AvailableOrBusy ==
  \A w \in Workers :
    /\ Occurrences(available_outbound, w) <= 1
    /\ ~ (ListIn(w, available_outbound) /\ Busy(w))
    /\ Announced(w) => (ListIn(w, available_outbound) \/ Busy(w))

\* One worker is available while the other is busy with a message that went
\* through the buffer.
C16_Witness ==
  \E w, v \in Workers :
    /\ ListIn(w, available_outbound)
    /\ Busy(v)
    /\ \E d \in dispatchLog : d.to = v /\ d.via = "buffer"

\* The broker took a request off the inbound socket and sent it to worker w
\* in this step.
DirectDispatch(w) == InboundHandled /\ toWorker'[w] # toWorker[w]

\* C17, as stated: whenever the broker sends a request straight to a worker,
\* that worker is the one at the head of the list of available workers (the
\* earliest appended), and it is the one taken out of the list.
C17_FifoSelection ==
  [][\A w \in Workers :
       DirectDispatch(w) =>
         /\ available_outbound # << >>
         /\ w = Head(available_outbound)
         /\ available_outbound' = Tail(available_outbound)]_vars

\* C17, amended: whenever the broker sends a request straight to a worker,
\* that worker is the route the sending producer is registered with; it is
\* in the list of available workers, at any position, and the step takes
\* its first occurrence out of the list and leaves the other workers in
\* their order.
C17_SelectionByRoute ==
  [][\A c \in DOMAIN inboundQ, w \in Workers :
       (c \notin DOMAIN inboundQ' /\ DirectDispatch(w)) =>
         /\ c \in DOMAIN inbound_components
         /\ inbound_components[c].route = w
         /\ ListIn(w, available_outbound)
         /\ available_outbound' = ListRemove(available_outbound, w)]_vars

\* A request was sent straight to a worker that was second in the list of
\* available workers.
C17_Witness == \E d \in dispatchLog : d.via = "direct" /\ d.pos = 2

Sent(p) == pn[p] + (IF ppc[p] \in {"recv", "failed"} THEN 1 ELSE 0)

\* The replies the broker has sent to producer p so far.
Replied(p) == {r \in replyLog : r.to = p}

\* Every reply answers a request its receiver sent, no request has two
\* replies, and a reply is on its way only to a producer that waits for one.
OneReplyPerRequest ==
  \A p \in Producers :
    /\ \A r \in Replied(p) : r.key[1] = p /\ r.key[2] < Sent(p)
    /\ \A r, q \in Replied(p) : r.key = q.key => r = q
    /\ Cardinality(Replied(p)) = Len(returned[p]) + Len(toProducer[p])
    /\ Len(toProducer[p]) <= 1
    /\ toProducer[p] # << >> => ppc[p] = "recv" /\ p \notin DOMAIN inboundQ

\* C19: the broker sends at most one reply per request, an acknowledgement
\* or a worker's payload and never both, and only to a producer whose
\* request is outstanding; a pass that reads a worker's message whose key is
\* not in the ledger (a ready message among them) sends nothing on the
\* inbound socket.
C19_AtMostOneReply ==
  /\ []OneReplyPerRequest
  /\ [][\A w \in DOMAIN outboundQ :
          (w \notin DOMAIN outboundQ' /\ Parse(outboundQ[w]).key \notin DOMAIN ledger)
            => toProducer' = toProducer]_vars

\* A non-blocking producer's request was acknowledged and the worker's
\* feedback for it has been read without a second reply; a blocking
\* producer has been sent the payload of its feedback.
C19_Witness ==
  /\ \E r \in replyLog :
       /\ r.kind = "ack"
       /\ \E f \in observed : f.key = r.key
       /\ RepliesFor(r.to, r.key) = {r}
  /\ \E r \in replyLog : r.kind = "feedback"

\* The request producer p sent in pass n of its loop, as the broker parses it.
Request(p, n) == [key |-> FreshKey(p, n), payload |-> ToString(Value(p, n))]

\* C20: every message the broker has sent to a worker, straight or through
\* the buffer, is a request some registered producer sent, with its key and
\* payload, sent to the worker that producer's registration names as its
\* route, and no request was sent to a worker more than once; what waits in
\* a worker's socket is one of these messages.
C20_DispatchFaithful ==
  /\ \A d \in dispatchLog :
       LET p == d.key[1]
       IN  /\ p \in Producers \cap DOMAIN inbound_components
           /\ inbound_components[p].route = d.to
           /\ d.key[2] < Sent(p)
           /\ [key |-> d.key, payload |-> d.payload] = Request(p, d.key[2])
           /\ \A e \in dispatchLog : e.key = d.key => e = d
           /\ d.key \in DOMAIN dispatchCount
  /\ \A k \in DOMAIN dispatchCount : dispatchCount[k] = 1
  /\ \A w \in Workers : \A i \in 1..Len(toWorker[w]) :
       \E d \in dispatchLog :
         d.to = w /\ Parse(toWorker[w][i]) = [key |-> d.key, payload |-> d.payload]

\* One request went straight to its worker and another reached its worker
\* through the buffer.
C20_Witness ==
  \E d, e \in dispatchLog : d.via = "direct" /\ e.via = "buffer"

============================================================================
